---- MODULE Spec2Model ----
(***************************************************************************)
(* Model of ProfessionalAstrologicalCalculator (src/astro_calculator.py).  *)
(*                                                                         *)
(* Number representation.                                                  *)
(*  - Python ints are TLA+ integers; Python's int % n (n > 0) is the       *)
(*    non-negative remainder.                                              *)
(*  - Python floats that hold angles are modelled by a binary floating     *)
(*    point format of the same shape as IEEE double, scaled down: the      *)
(*    unit is half a degree and the significand has 8 bits instead of 53.  *)
(*    A value is an integer count of half degrees; it is representable     *)
(*    when it is a multiple of Spacing(|v|).  Every float addition and     *)
(*    subtraction rounds to nearest, ties to even (RoundF); fmod is exact. *)
(*    The smallest negative values of the grid play the part of the        *)
(*    negative values below half an ulp of 360.0 in double precision.      *)
(*  - A Julian Day is a whole day count plus minutes (1/1440 day).         *)
(*  - A geographic coordinate of the session is a whole number of          *)
(*    ten-thousandths of a degree, the four decimals the number inputs     *)
(*    keep; it is taken to the nearest half degree where it enters the     *)
(*    sidereal time.                                                       *)
(*  - The ayanamsa is kept to a microdegree, the last place of the model   *)
(*    as 3.6e-15 degree is the last place of a double near 23.85; the      *)
(*    nakshatra arithmetic is exact, as Python's float // and % are, on    *)
(*    a span that is 360/27 rounded to the format.                         *)
(***************************************************************************)
EXTENDS Integers, Sequences, FiniteSets, TLC

VARIABLES
    self,       \* the calculator object: the attributes set by __init__
    birth,      \* birth_datetime: [year, month, day, hour, minute]
    later,      \* a second civil datetime, a number of days after birth
    tzolkin,    \* results of calculate_mayan_tzolkin: [first, second]
    pillars,    \* result of calculate_four_pillars(birth)
    jdDays,     \* jd - 2451545.0 of the chart, in whole days
    laterDays,  \* a second Julian Day, later than jdDays, in whole days
    longitude,  \* geographic longitude of the chart, half degrees
    atan2deg,   \* math.degrees(math.atan2(y, x)) for the chart's latitude
    moon,       \* moon_longitude passed to get_nakshatra_details, half degrees
    chart,      \* result of calculate_houses: [system, houses, ascendant]
    tropical,   \* result of calculate_planetary_positions(jd)
    vedic,      \* result of calculate_vedic_positions(tropical, jd)
    julianDay,  \* results of calculate_julian_day: [first, second]
    lahiri,     \* results of calculate_lahiri_ayanamsa: [first, second], each [ayanamsa]
    nakshatra,  \* result of get_nakshatra_details(moon)
    laterPillars,       \* result of calculate_four_pillars(later)
    FOLIUM_AVAILABLE,   \* whether folium and streamlit_folium were imported
    session_state,      \* st.session_state; a key that is not set holds None
    widgets,            \* the values the sidebar widgets and the map hold
    run                 \* the last run of main: what triggered it, what it showed

\* the arguments of the calls: drawn in Init, read by the actions
inputs == <<birth, later, jdDays, laterDays, longitude, atan2deg, moon>>

\* what the calls returned
results == <<tzolkin, pillars, chart, tropical, vedic, julianDay, lahiri, nakshatra>>

\* the application around the calculator: the state main keeps between runs
app == <<FOLIUM_AVAILABLE, session_state, widgets, run>>

vars == <<self, birth, later, tzolkin, pillars, jdDays, laterDays, longitude,
          atan2deg, moon, chart, tropical, vedic, julianDay, lahiri, nakshatra,
          laterPillars, FOLIUM_AVAILABLE, session_state, widgets, run>>

\* Python None, as a record so that it compares with every result
None == [none |-> TRUE]

-----------------------------------------------------------------------------
(* Bounds of the model *)

MinYear == 1898
MaxYear == 1900
MaxJdDay == 1
MaxLonStep == 3
MaxEphemDay == 1600
MaxDayOfCentury == 2
MaxGapDays == 3
MaxSessionMonth == 3
MaxSessionDay == 1
MaxEntered == 1
MaxCity == 2
MaxTimezone == 2

\* the range of the series, in centuries on either side of J2000 (the
\* "4000 year range" of the accuracy notes)
IntendedCenturies == 20

\* the days over which the polynomial rises by two microdegrees at the slow
\* end of the range (0.0769 microdegree a day at +20 centuries): the floors
\* of the linear and the quadratic term cannot hide a rise that large
RoundingGapDays == 27

-----------------------------------------------------------------------------
(* Float arithmetic on angles (unit: half a degree) *)

Deg(d) == 2 * d

Abs(v) == IF v < 0 THEN -v ELSE v

RECURSIVE SpacingFrom(_, _, _)
SpacingFrom(a, top, s) == IF a < top THEN s ELSE SpacingFrom(a, 2 * top, 2 * s)

\* distance between neighbouring representable values at magnitude a
Spacing(a) == SpacingFrom(a, 256, 1)

Representable(v) == v % Spacing(Abs(v)) = 0

\* round to nearest representable value, ties to the even significand
RoundF(v) ==
    LET s == Spacing(Abs(v))
        q == v \div s
        r == v - q * s
    IN  IF 2 * r < s THEN q * s
        ELSE IF 2 * r > s THEN (q + 1) * s
        ELSE IF q % 2 = 0 THEN q * s ELSE (q + 1) * s

FAdd(a, b) == RoundF(a + b)

FSub(a, b) == RoundF(a - b)

\* C fmod(x, y) for y > 0: exact, result has the sign of x
Fmod(x, y) == IF x >= 0 THEN x % y ELSE -((-x) % y)

\* Python float x % y for y > 0: fmod, then add y (rounded) if negative
PyFloatMod(x, y) ==
    LET m == Fmod(x, y)
    IN  IF m < 0 THEN FAdd(m, y) ELSE m

\* remainder truncated towards zero (sign of the dividend)
TruncMod(a, n) == IF a >= 0 THEN a % n ELSE -((-a) % n)

\* Python int a % n for n > 0
PyIntMod(a, n) == a % n

-----------------------------------------------------------------------------
(* Civil calendar (datetime) *)

IsLeap(y) == (y % 4 = 0) /\ ((y % 100 # 0) \/ (y % 400 = 0))

DaysInMonth(y, m) ==
    IF m = 2 THEN (IF IsLeap(y) THEN 29 ELSE 28)
    ELSE IF m \in {4, 6, 9, 11} THEN 30 ELSE 31

DaysBeforeMonth(y, m) ==
    LET cum == <<0, 31, 59, 90, 120, 151, 181, 212, 243, 273, 304, 334>>
    IN  cum[m] + (IF m > 2 /\ IsLeap(y) THEN 1 ELSE 0)

\* datetime.toordinal(): day number in the proleptic Gregorian calendar
ToOrdinal(y, m, d) ==
    LET p == y - 1
    IN  p * 365 + p \div 4 - p \div 100 + p \div 400 + DaysBeforeMonth(y, m) + d

\* the first day of the month following dt, same time of day
FirstOfNextMonth(dt) ==
    IF dt.month < 12
    THEN [dt EXCEPT !.month = dt.month + 1, !.day = 1]
    ELSE [dt EXCEPT !.year = dt.year + 1, !.month = 1, !.day = 1]

\* dt + timedelta(days=n), n >= 0, by walking the civil calendar
RECURSIVE AddDays(_, _)
AddDays(dt, n) ==
    LET left == DaysInMonth(dt.year, dt.month) - dt.day
    IN  IF n <= left THEN [dt EXCEPT !.day = dt.day + n]
        ELSE AddDays(FirstOfNextMonth(dt), n - left - 1)

\* the years around the 1900 epoch, the first year of datetime (whose day
\* count plus the correlation constant is negative), the year 1994 of the
\* default birth and the leap century year 2000
Years == (MinYear .. MaxYear) \cup {1, 1994, 2000}

DateTimes(hours) ==
    {[year |-> y, month |-> m, day |-> d, hour |-> h, minute |-> 0] :
        y \in Years, m \in 1..12, d \in 1..31, h \in hours} \cap
    {dt \in [year : Years, month : 1..12, day : 1..31, hour : hours, minute : {0}] :
        dt.day <= DaysInMonth(dt.year, dt.month)}

-----------------------------------------------------------------------------
(* Lookup tables (__init__) *)

\* the exception of an out-of-range list index, as a tuple like the table entries
IndexError == <<"IndexError">>

\* Python list indexing table[i]: negative indices count from the end
PyIndex(table, i) ==
    IF 0 <= i /\ i < Len(table) THEN table[i + 1]
    ELSE IF -Len(table) <= i /\ i < 0 THEN table[Len(table) + i + 1]
    ELSE IndexError

\* calc = ProfessionalAstrologicalCalculator(): the lists that __init__
\* binds to the attributes of the object
ProfessionalAstrologicalCalculator ==
    [zodiac_signs |->
        <<"Aries", "Taurus", "Gemini", "Cancer", "Leo", "Virgo", "Libra",
          "Scorpio", "Sagittarius", "Capricorn", "Aquarius", "Pisces">>,
     nakshatras |->
        << <<"Ashwini", "Ketu", "New beginnings, quick action">>,
           <<"Bharani", "Venus", "Transformation, restraint">>,
           <<"Krittika", "Sun", "Cutting through illusion">>,
           <<"Rohini", "Moon", "Growth, fertility, beauty">>,
           <<"Mrigashira", "Mars", "Searching, curiosity">>,
           <<"Ardra", "Rahu", "Intensity, change">>,
           <<"Punarvasu", "Jupiter", "Renewal, optimism">>,
           <<"Pushya", "Saturn", "Nourishment, protection">>,
           <<"Ashlesha", "Mercury", "Mystical knowledge">>,
           <<"Magha", "Ketu", "Ancestral power, authority">>,
           <<"Purva Phalguni", "Venus", "Creativity, relationships">>,
           <<"Uttara Phalguni", "Sun", "Leadership, generosity">>,
           <<"Hasta", "Moon", "Skill, dexterity">>,
           <<"Chitra", "Mars", "Artistic creation">>,
           <<"Swati", "Rahu", "Independence, flexibility">>,
           <<"Vishakha", "Jupiter", "Determination, focus">>,
           <<"Anuradha", "Saturn", "Devotion, friendship">>,
           <<"Jyeshtha", "Mercury", "Seniority, protection">>,
           <<"Mula", "Ketu", "Root investigation">>,
           <<"Purva Ashadha", "Venus", "Invincibility, pride">>,
           <<"Uttara Ashadha", "Sun", "Victory, achievement">>,
           <<"Shravana", "Moon", "Learning, listening">>,
           <<"Dhanishta", "Mars", "Wealth, music">>,
           <<"Shatabhisha", "Rahu", "Healing, mystery">>,
           <<"Purva Bhadrapada", "Jupiter", "Spiritual intensity">>,
           <<"Uttara Bhadrapada", "Saturn", "Deep wisdom">>,
           <<"Revati", "Mercury", "Completion, journeys">> >>,
     heavenly_stems |->
        << <<"Jia", "Yang Wood">>, <<"Yi", "Yin Wood">>,
           <<"Bing", "Yang Fire">>, <<"Ding", "Yin Fire">>,
           <<"Wu", "Yang Earth">>, <<"Ji", "Yin Earth">>,
           <<"Geng", "Yang Metal">>, <<"Xin", "Yin Metal">>,
           <<"Ren", "Yang Water">>, <<"Gui", "Yin Water">> >>,
     earthly_branches |->
        << <<"Zi", "Rat">>, <<"Chou", "Ox">>, <<"Yin", "Tiger">>, <<"Mao", "Rabbit">>,
           <<"Chen", "Dragon">>, <<"Si", "Snake">>, <<"Wu", "Horse">>, <<"Wei", "Goat">>,
           <<"Shen", "Monkey">>, <<"You", "Rooster">>, <<"Xu", "Dog">>, <<"Hai", "Pig">> >>,
     mayan_day_signs |->
        << <<"Imix", "Crocodile", "Primordial energy">>,
           <<"Ik", "Wind", "Spirit, breath">>,
           <<"Akbal", "Night", "Inner temple">>,
           <<"Kan", "Seed", "Growth potential">>,
           <<"Chicchan", "Serpent", "Life force">>,
           <<"Cimi", "Death", "Transformation">>,
           <<"Manik", "Deer", "Healing hands">>,
           <<"Lamat", "Rabbit", "Star seed">>,
           <<"Muluc", "Water", "Offering">>,
           <<"Oc", "Dog", "Loyalty, guidance">>,
           <<"Chuen", "Monkey", "Artistry">>,
           <<"Eb", "Grass", "Human experience">>,
           <<"Ben", "Reed", "Flowing waters">>,
           <<"Ix", "Jaguar", "Magical powers">>,
           <<"Men", "Eagle", "Planetary mind">>,
           <<"Cib", "Owl", "Ancient wisdom">>,
           <<"Caban", "Earth", "Sacred knowledge">>,
           <<"Etznab", "Flint", "Mirror of truth">>,
           <<"Cauac", "Storm", "Catalytic energy">>,
           <<"Ahau", "Sun", "Enlightenment">> >>,
     \* (latitude, longitude) in ten-thousandths of a degree, in dict order
     major_cities |->
        << <<"Kathmandu, Nepal", 277172, 853240>>,
           <<"New York, USA", 407128, -740060>>,
           <<"London, UK", 515074, -1278>>,
           <<"Tokyo, Japan", 356762, 1396503>>,
           <<"Mumbai, India", 190760, 728777>>,
           <<"Sydney, Australia", -338688, 1512093>>,
           <<"Los Angeles, USA", 340522, -1182437>>,
           <<"Paris, France", 488566, 23522>>,
           <<"Beijing, China", 399042, 1164074>>,
           <<"Cairo, Egypt", 300444, 312357>> >>,
     house_systems |->
        <<"Placidus", "Koch", "Whole Sign", "Equal", "Campanus", "Regiomontanus">>]

\* the attributes as the methods read them: self.<name>
zodiac_signs == self.zodiac_signs

nakshatras == self.nakshatras

mayan_day_signs == self.mayan_day_signs

heavenly_stems == self.heavenly_stems

earthly_branches == self.earthly_branches

house_systems == self.house_systems

major_cities == self.major_cities

-----------------------------------------------------------------------------
(* calculate_mayan_tzolkin *)

\* (birth_datetime - epoch).days with epoch = datetime(1900, 1, 1); the
\* time of day of a naive datetime is the non-negative seconds part of the
\* timedelta, so .days is the difference of the two day numbers
days_since_epoch(dt) ==
    ToOrdinal(dt.year, dt.month, dt.day) - ToOrdinal(1900, 1, 1)

\* the returned dict; day_sign_index is the local variable that reads the
\* table, kept here next to the entry it selected
TzolkinResult(kin, day_sign_index, galactic_tone) ==
    LET day_sign_info == PyIndex(mayan_day_signs, day_sign_index)
    IN  IF day_sign_info = IndexError
        THEN [error |-> IndexError, day_sign_index |-> day_sign_index]
        ELSE [kin |-> kin + 1,
              day_sign |-> day_sign_info[1],
              glyph |-> day_sign_info[2],
              meaning |-> day_sign_info[3],
              galactic_tone |-> galactic_tone,
              day_sign_index |-> day_sign_index]

\* the remainders truncated towards zero, as C's % on a negative day count
calculate_mayan_tzolkin_truncated(dt) ==
    LET kin == TruncMod(days_since_epoch(dt) + 584283, 260)
    IN  TzolkinResult(kin, TruncMod(kin, 20), TruncMod(kin, 13) + 1)

\* the cycle position reduced by the length of a civil year
calculate_mayan_tzolkin_365(dt) ==
    LET kin == PyIntMod(days_since_epoch(dt) + 584283, 365)
    IN  TzolkinResult(PyIntMod(kin, 260), PyIntMod(kin, 20), PyIntMod(kin, 13) + 1)

\* the tone taken from the 1-based kin number
calculate_mayan_tzolkin_tone_of_number(dt) ==
    LET kin == PyIntMod(days_since_epoch(dt) + 584283, 260)
    IN  TzolkinResult(kin, PyIntMod(kin, 20), PyIntMod(kin + 1, 13) + 1)

calculate_mayan_tzolkin(dt) ==
    LET correlation_constant == 584283
        total_days == days_since_epoch(dt) + correlation_constant
        kin == PyIntMod(total_days, 260)
        day_sign_index == PyIntMod(kin, 20)
        galactic_tone == PyIntMod(kin, 13) + 1
    IN  TzolkinResult(kin, day_sign_index, galactic_tone)

-----------------------------------------------------------------------------
(* calculate_julian_day *)

\* A Julian Day is [day |-> D, min |-> M], the number D + M/1440 with
\* 0 <= M < 1440.  math.floor(365.25 * y) is (1461 * y) \div 4 and
\* math.floor(30.6001 * m) is (306001 * m) \div 10000.
\* January and February left as months 1 and 2 of their own year
calculate_julian_day_unshifted(year0, month0, day, hour, minute) ==
    LET a == year0 \div 100
        b == 2 - a + a \div 4
        whole == (1461 * (year0 + 4716)) \div 4
                 + (306001 * (month0 + 1)) \div 10000 + day + b
        mins == 720 + 60 * hour + minute
    IN  [day |-> whole - 1525 + mins \div 1440, min |-> mins % 1440]

calculate_julian_day(year0, month0, day, hour, minute) ==
    LET year == IF month0 <= 2 THEN year0 - 1 ELSE year0
        month == IF month0 <= 2 THEN month0 + 12 ELSE month0
        a == year \div 100
        b == 2 - a + a \div 4
        whole == (1461 * (year + 4716)) \div 4
                 + (306001 * (month + 1)) \div 10000 + day + b
        \* whole - 1524.5 + (hour + minute/60)/24
        mins == 720 + 60 * hour + minute
    IN  [day |-> whole - 1525 + mins \div 1440, min |-> mins % 1440]

\* int(jd): truncation towards zero
IntOfJd(jd) == IF jd.day < 0 /\ jd.min > 0 THEN jd.day + 1 ELSE jd.day

\* jd - 2451545.0 in whole days, for a Julian Day of calculate_julian_day
DaysSinceJ2000(julian) == julian.day - 2451545

-----------------------------------------------------------------------------
(* calculate_four_pillars *)

\* the returned dict of (stem, branch) table entries, with the indices and
\* day_offset that produced them
PillarsResult(ys, yb, ms, mb, day_offset, ds, db, hs, hb) ==
    LET stems == {PyIndex(heavenly_stems, i) : i \in {ys, ms, ds, hs}}
        branches == {PyIndex(earthly_branches, i) : i \in {yb, mb, db, hb}}
    IN  IF IndexError \in stems \cup branches
        THEN [error |-> IndexError,
              year_stem |-> ys, year_branch |-> yb,
              month_stem |-> ms, month_branch |-> mb,
              day_offset |-> day_offset,
              day_stem |-> ds, day_branch |-> db,
              hour_stem |-> hs, hour_branch |-> hb]
        ELSE [year |-> <<PyIndex(heavenly_stems, ys), PyIndex(earthly_branches, yb)>>,
              month |-> <<PyIndex(heavenly_stems, ms), PyIndex(earthly_branches, mb)>>,
              day |-> <<PyIndex(heavenly_stems, ds), PyIndex(earthly_branches, db)>>,
              hour |-> <<PyIndex(heavenly_stems, hs), PyIndex(earthly_branches, hb)>>,
              year_stem |-> ys, year_branch |-> yb,
              month_stem |-> ms, month_branch |-> mb,
              day_offset |-> day_offset,
              day_stem |-> ds, day_branch |-> db,
              hour_stem |-> hs, hour_branch |-> hb]

\* the hour branch left as the double-hour number, not reduced mod 12
calculate_four_pillars_hour_unreduced(dt) ==
    LET adjust == dt.month = 1 \/ (dt.month = 2 /\ dt.day < 35)
        year == IF adjust THEN dt.year - 1 ELSE dt.year
        jd == calculate_julian_day(year, dt.month, dt.day, 0, 0)
        day_offset == PyIntMod(IntOfJd(jd), 60)
        day_stem == PyIntMod(day_offset, 10)
        hour_branch == (dt.hour + 1) \div 2
    IN  PillarsResult(PyIntMod(year - 4, 10), PyIntMod(year - 4, 12),
                      PyIntMod((PyIntMod(year, 5)) * 2 + dt.month, 10),
                      PyIntMod(dt.month + 1, 12),
                      day_offset, day_stem, PyIntMod(day_offset, 12),
                      PyIntMod(day_stem * 2 + hour_branch, 10), hour_branch)

\* the New Year taken to fall on 5 February: day < 5 instead of day < 35
calculate_four_pillars_new_year_day_5(dt) ==
    LET adjust == dt.month = 1 \/ (dt.month = 2 /\ dt.day < 5)
        year == IF adjust THEN dt.year - 1 ELSE dt.year
        jd == calculate_julian_day(year, dt.month, dt.day, 0, 0)
        day_offset == PyIntMod(IntOfJd(jd), 60)
        day_stem == PyIntMod(day_offset, 10)
        hour_branch == PyIntMod((dt.hour + 1) \div 2, 12)
    IN  PillarsResult(PyIntMod(year - 4, 10), PyIntMod(year - 4, 12),
                      PyIntMod((PyIntMod(year, 5)) * 2 + dt.month, 10),
                      PyIntMod(dt.month + 1, 12),
                      day_offset, day_stem, PyIntMod(day_offset, 12),
                      PyIntMod(day_stem * 2 + hour_branch, 10), hour_branch)

calculate_four_pillars(dt) ==
    LET chinese_new_year_adjustment == 35
        adjust == dt.month = 1 \/ (dt.month = 2 /\ dt.day < chinese_new_year_adjustment)
        year == IF adjust THEN dt.year - 1 ELSE dt.year
        month == dt.month
        day == dt.day
        hour == dt.hour
        year_stem == PyIntMod(year - 4, 10)
        year_branch == PyIntMod(year - 4, 12)
        month_stem == PyIntMod((PyIntMod(year, 5)) * 2 + month, 10)
        month_branch == PyIntMod(month + 1, 12)
        jd == calculate_julian_day(year, month, day, 0, 0)
        day_offset == PyIntMod(IntOfJd(jd), 60)
        day_stem == PyIntMod(day_offset, 10)
        day_branch == PyIntMod(day_offset, 12)
        hour_branch == PyIntMod((hour + 1) \div 2, 12)
        hour_stem == PyIntMod(day_stem * 2 + hour_branch, 10)
    IN  PillarsResult(year_stem, year_branch, month_stem, month_branch,
                      day_offset, day_stem, day_branch, hour_stem, hour_branch)

-----------------------------------------------------------------------------
(* calculate_houses *)

\* dict item assignment d[k] = v
Put(d, k, v) == [x \in (DOMAIN d) \cup {k} |-> IF x = k THEN v ELSE d[x]]

\* gst = 280.46061837 + 360.98564736629 * (jd - 2451545.0), the literals
\* taken to the nearest half degree; lst = (gst + longitude) % 360
LocalSiderealTime(days, lon) ==
    LET gst == FAdd(561, RoundF(722 * days))
    IN  PyFloatMod(FAdd(gst, lon), Deg(360))

\* y = math.cos(lst_rad) is never 0.0 in floating point: it is positive
\* for lst in [0, 90] and (270, 360], negative for lst in (90, 270]
\* (cos(radians(90.0)) = 6.1e-17, cos(radians(270.0)) = -1.8e-16)
CosIsPositive(lst) == lst <= Deg(90) \/ lst > Deg(270)

\* the values math.degrees(math.atan2(y, x)) can take for the sign of y,
\* x ranging with the latitude and the obliquity: (0, 180] or [-180, 0)
Atan2Degrees(lst) ==
    {r \in (-Deg(180)) .. Deg(180) :
        /\ Representable(r)
        /\ IF CosIsPositive(lst) THEN r > 0 ELSE r < 0}

\* the else branch of calculate_houses: the four angles, then the two loops
QuadrantHouses(ascendant, mc) ==
    LET h0 == (1 :> ascendant) @@ (4 :> PyFloatMod(FAdd(mc, Deg(180)), Deg(360)))
                @@ (7 :> PyFloatMod(FAdd(ascendant, Deg(180)), Deg(360)))
                @@ (10 :> mc)
        Intermediate[i \in 1..6] ==
            IF i = 1 THEN h0
            ELSE Put(Intermediate[i - 1], i,
                     PyFloatMod(FAdd(ascendant, Deg((i - 1) * 30)), Deg(360)))
        Wheel[i \in 7..12] ==
            IF i = 7 THEN Intermediate[6]
            ELSE Put(Wheel[i - 1],
                     IF PyIntMod(i, 12) # 0 THEN PyIntMod(i, 12) ELSE 12,
                     PyFloatMod(FAdd(Wheel[i - 1][i - 6], Deg(180)), Deg(360)))
    IN  Wheel[12]

WholeSignHouses(ascendant) ==
    LET asc_sign == ascendant \div Deg(30)
    IN  [i \in 1..12 |-> Deg(PyIntMod(asc_sign * 30 + (i - 1) * 30, 360))]

EqualHouses(ascendant) ==
    [i \in 1..12 |-> PyFloatMod(FAdd(ascendant, Deg((i - 1) * 30)), Deg(360))]

\* Koch handled by the Whole Sign branch
calculate_houses_koch_whole_sign(days, lon, atan2, house_system) ==
    LET lst == LocalSiderealTime(days, lon)
        ascendant == PyFloatMod(atan2, Deg(360))
        mc == PyFloatMod(lst, Deg(360))
    IN  [system |-> house_system,
         houses |-> IF house_system \in {"Whole Sign", "Koch"} THEN WholeSignHouses(ascendant)
                    ELSE IF house_system = "Equal" THEN EqualHouses(ascendant)
                    ELSE QuadrantHouses(ascendant, mc),
         ascendant |-> ascendant]

calculate_houses(days, lon, atan2, house_system) ==
    LET lst == LocalSiderealTime(days, lon)
        ascendant == PyFloatMod(atan2, Deg(360))
        mc == PyFloatMod(lst, Deg(360))
    IN  [system |-> house_system,
         houses |-> IF house_system = "Whole Sign" THEN WholeSignHouses(ascendant)
                    ELSE IF house_system = "Equal" THEN EqualHouses(ascendant)
                    ELSE QuadrantHouses(ascendant, mc),
         ascendant |-> ascendant]

-----------------------------------------------------------------------------
(* calculate_lahiri_ayanamsa, calculate_planetary_positions,               *)
(* calculate_vedic_positions                                               *)

Bodies == {"Sun", "Moon", "Mercury", "Venus", "Mars", "Jupiter", "Saturn"}

\* 1000 * sin of an angle given in millidegrees, from the values of sin at
\* the multiples of 15 degrees (nearest entry)
SinMilli(a) ==
    LET quarter == <<0, 259, 500, 707, 866, 966, 1000>>
        k == PyIntMod((PyIntMod(a, 360000) + 7500) \div 15000, 24)
    IN  IF k <= 6 THEN quarter[k + 1]
        ELSE IF k <= 12 THEN quarter[12 - k + 1]
        ELSE IF k <= 18 THEN -quarter[k - 12 + 1]
        ELSE -quarter[24 - k + 1]

\* amplitude (millidegrees) times sin(angle), in millidegrees
Term(amp, a) == (amp * SinMilli(a)) \div 1000

\* millidegrees to the nearest half degree, as a float
MilliToFloat(m) == RoundF((m + 250) \div 500)

\* 50.29 * t / 3600 in microdegrees, t = days / 36525: the whole part of
\* 5029 * days / 13149, taken in two pieces to stay within 32 bits
LinearTerm(days) ==
    LET q == days \div 13149
        r == days % 13149
    IN  5029 * q + (5029 * r) \div 13149

\* 0.000279 * t * t in microdegrees: the whole part of
\* 279 * days * days / 36525^2 with days = 36525 * c + r, that is of
\* 279 c^2 + 558 c r / 36525 + 279 r^2 / 36525^2
QuadraticTerm(days) ==
    LET c == days \div 36525
        r == days % 36525
        x == 558 * c * r
        u == x \div 36525
        v == x % 36525
        s == (r * r) \div 36525
        w == (r * r) % 36525
    IN  279 * c * c + u + (v + 279 * s + (279 * w) \div 36525) \div 36525

\* t counted in years (days / 365.25) instead of centuries
calculate_lahiri_ayanamsa_years(days) ==
    23850000 + 100 * LinearTerm(days) - 10000 * QuadraticTerm(days)

\* the rate of 50.29 arcseconds taken per year, a hundred times the rate
\* per century
calculate_lahiri_ayanamsa_per_year(days) ==
    23850000 + 100 * LinearTerm(days) - QuadraticTerm(days)

\* ayanamsa in microdegrees; days = jd - 2451545.0 and t = days / 36525:
\* 23.85 + 50.29 * t / 3600 - 0.000279 * t * t
calculate_lahiri_ayanamsa(days) ==
    23850000 + LinearTerm(days) - QuadraticTerm(days)

AyanamsaFloat(days) == RoundF((calculate_lahiri_ayanamsa(days) + 250000) \div 500000)

\* mean longitude plus periodic terms of each body, in millidegrees; the
\* rates are the per-century coefficients divided by 36525 days, and the
\* terms in t*t (below a millidegree over the modelled days) are dropped
RawLongitude(body, d) ==
    LET sun_m == 357528 + 986 * d
        moon_d == 297850 + 12191 * d
        moon_m == 134963 + 13065 * d
    IN  CASE body = "Sun" ->
               <<280466 + 9856 * d,
                 Term(1915, sun_m) + Term(20, 2 * sun_m)>>
          [] body = "Moon" ->
               <<218316 + 13176 * d,
                 Term(6289, moon_m) + Term(1274, 2 * moon_d - moon_m)
                 + Term(658, 2 * moon_d) + Term(214, 2 * moon_m)
                 - Term(185, sun_m)>>
          [] body = "Mercury" ->
               <<252251 + 4092 * d, Term(23440, 174795 + 112 * d)>>
          [] body = "Venus" ->
               <<181980 + 1602 * d, Term(776, 50416 + 44 * d)>>
          [] body = "Mars" ->
               <<355433 + 524 * d, Term(10691, 19373 + 19 * d)>>
          [] body = "Jupiter" ->
               <<34351 + 83 * d, Term(5555, 20020 + 2 * d)>>
          [] body = "Saturn" ->
               <<50077 + 33 * d, Term(5629, 317020 + d)>>

calculate_planetary_positions(d) ==
    [b \in Bodies |->
        LET raw == RawLongitude(b, d)
        IN  PyFloatMod(FAdd(MilliToFloat(raw[1]), MilliToFloat(raw[2])), Deg(360))]

calculate_vedic_positions(tropical_positions, d) ==
    LET ayanamsa == AyanamsaFloat(d)
    IN  [positions |-> [b \in DOMAIN tropical_positions |->
                           PyFloatMod(FSub(tropical_positions[b], ayanamsa), Deg(360))],
         ayanamsa |-> ayanamsa]

-----------------------------------------------------------------------------
(* get_nakshatra_details *)

\* nakshatra_span = 360 / 27, in units of 1/512 degree.  The quotient is
\* rounded to the nearest multiple of 1/128 degree, which lies above 40/3
\* as the double 13.333333333333334 does; nakshatra_span / 4 is then exact.
nakshatra_span == 4 * ((2 * 360 * 128 + 27) \div (2 * 27))

\* the returned dict, with the index that read the table; // and % of
\* Python floats are the exact floor quotient and remainder
get_nakshatra_details(moon_longitude) ==
    LET fine == 256 * moon_longitude
        nakshatra_index == fine \div nakshatra_span
        nakshatra_remainder == fine % nakshatra_span
        pada == nakshatra_remainder \div (nakshatra_span \div 4) + 1
        nakshatra_info == PyIndex(nakshatras, nakshatra_index)
    IN  IF nakshatra_info = IndexError
        THEN [error |-> IndexError, nakshatra_index |-> nakshatra_index]
        ELSE [name |-> nakshatra_info[1],
              lord |-> nakshatra_info[2],
              meaning |-> nakshatra_info[3],
              pada |-> pada,
              degree_in_nakshatra |-> nakshatra_remainder,
              nakshatra_index |-> nakshatra_index]

-----------------------------------------------------------------------------
(* generate_report_text *)

\* the list of sign names that generate_report_text indexes
report_signs ==
    <<"Aries", "Taurus", "Gemini", "Cancer", "Leo", "Virgo",
      "Libra", "Scorpio", "Sagittarius", "Capricorn", "Aquarius", "Pisces">>

\* f"{x:.2f}" of an angle: the number of hundredths of a degree printed
Format2f(x) == 50 * x

\* table[int(position // 30)]: the name read, or the exception raised
SignOf(table, position) ==
    LET i == position \div Deg(30)
    IN  IF -Len(table) <= i /\ i < Len(table) THEN [name |-> PyIndex(table, i)]
        ELSE [error |-> IndexError]

\* the values generate_report_text writes into the report, or the exception
\* it raises; houses is None when include_houses is false.  The Moon's
\* nakshatra is computed as in get_nakshatra_details, on a local copy of the
\* (name, lord) table.
generate_report_text(birth_data, vedic_positions, tropical_positions, four_pillars, tzolkin_result, houses, ayanamsa, include_houses, house_system) ==
    LET vedic_asc == PyFloatMod(FSub(houses[1], ayanamsa), Deg(360))
        vedic_asc_sign == SignOf(report_signs, vedic_asc)
        planet_signs == [b \in DOMAIN vedic_positions |->
                            SignOf(report_signs, vedic_positions[b])]
        moon_nakshatra == get_nakshatra_details(vedic_positions["Moon"])
        western_asc_sign == SignOf(report_signs, houses[1])
        sun_sign == SignOf(report_signs, tropical_positions["Sun"])
        moon_sign == SignOf(report_signs, tropical_positions["Moon"])
        raised ==
            \/ include_houses /\ "error" \in (DOMAIN vedic_asc_sign) \cup (DOMAIN western_asc_sign)
            \/ \E b \in DOMAIN vedic_positions : "error" \in DOMAIN planet_signs[b]
            \/ "error" \in DOMAIN moon_nakshatra
            \/ "error" \in (DOMAIN sun_sign) \cup (DOMAIN moon_sign)
    IN  IF raised THEN [error |-> IndexError]
        ELSE [birth_data |-> birth_data,
              house_system |-> house_system,
              ayanamsa |-> ayanamsa,
              ascendant |-> IF include_houses
                            THEN [sign |-> vedic_asc_sign.name, longitude |-> Format2f(vedic_asc)]
                            ELSE None,
              planets |-> [b \in DOMAIN vedic_positions |->
                              [sign |-> planet_signs[b].name,
                               longitude |-> Format2f(vedic_positions[b])]],
              nakshatra |-> [name |-> moon_nakshatra.name, lord |-> moon_nakshatra.lord,
                             pada |-> moon_nakshatra.pada],
              western_ascendant |-> IF include_houses
                                    THEN [sign |-> western_asc_sign.name,
                                          longitude |-> Format2f(houses[1])]
                                    ELSE None,
              sun_sign |-> sun_sign.name,
              moon_sign |-> moon_sign.name,
              four_pillars |-> [k \in {"year", "month", "day", "hour"} |-> four_pillars[k]],
              day_sign |-> tzolkin_result.day_sign,
              galactic_tone |-> tzolkin_result.galactic_tone,
              kin |-> tzolkin_result.kin]

-----------------------------------------------------------------------------
(* main: the conversions and the calculation of one run *)

\* st.session_state.lat_value and lon_value of a new session
DefaultLat == 277172

DefaultLon == 853240

\* a whole number of degrees as a coordinate of the session
Coord(d) == 10000 * d

LocationMethods == {"Interactive Map", "Manual Coordinates", "Major Cities"}

\* the options of the Timezone selectbox
Timezones == <<"Asia/Kathmandu", "UTC", "Asia/Kolkata", "US/Eastern", "Europe/London">>

\* bool(x) of a float, as "x and ..." tests it
Truthy(x) == x # 0

\* a coordinate of the session to the nearest half degree
HalfDegrees(c) == (c + 2500) \div 5000

\* st.session_state before the first run: no key is set
EmptySessionState ==
    [lat_value |-> None, lon_value |-> None,
     calculation_results |-> None, generated_report |-> None]

\* the radio, the selectboxes and the checkbox at their first option or
\* declared value
DefaultWidgets ==
    [location_method |-> "Interactive Map", timezone |-> "Asia/Kathmandu",
     house_system |-> "Placidus", include_houses |-> TRUE]

\* the offset from UTC, in minutes, that pytz gives the zone for a date of
\* the first months of 1994 (standard time in every zone of the selectbox)
UtcOffsetMinutes(timezone) ==
    CASE timezone = "Asia/Kathmandu" -> 345
      [] timezone = "UTC" -> 0
      [] timezone = "Asia/Kolkata" -> 330
      [] timezone = "US/Eastern" -> -300
      [] timezone = "Europe/London" -> 0

\* the civil day before dt, same time of day
PreviousDay(dt) ==
    IF dt.day > 1 THEN [dt EXCEPT !.day = dt.day - 1]
    ELSE IF dt.month > 1
         THEN [dt EXCEPT !.month = dt.month - 1,
                         !.day = DaysInMonth(dt.year, dt.month - 1)]
         ELSE [dt EXCEPT !.year = dt.year - 1, !.month = 12, !.day = 31]

\* tz.localize(birth_datetime).astimezone(pytz.UTC)
AsUtc(dt, timezone) ==
    LET m == 60 * dt.hour + dt.minute - UtcOffsetMinutes(timezone)
        date == IF m < 0 THEN PreviousDay(dt)
                ELSE IF m >= 1440 THEN AddDays(dt, 1) ELSE dt
    IN  [date EXCEPT !.hour = (m % 1440) \div 60, !.minute = m % 60]

\* the try block up to the dict stored under 'calculation_results', with the
\* ascendant that stays a local variable of main; jd enters the ephemeris
\* and the houses by its whole days
Calculation(dt, lat, lon, settings, atan2) ==
    LET birth_datetime_utc == AsUtc(dt, settings.timezone)
        jd == calculate_julian_day(birth_datetime_utc.year, birth_datetime_utc.month,
                                   birth_datetime_utc.day, birth_datetime_utc.hour,
                                   birth_datetime_utc.minute)
        tropical_positions == calculate_planetary_positions(DaysSinceJ2000(jd))
        vedic_result == calculate_vedic_positions(tropical_positions, DaysSinceJ2000(jd))
        houses_result == calculate_houses(DaysSinceJ2000(jd), HalfDegrees(lon), atan2,
                                          settings.house_system)
        four_pillars == calculate_four_pillars(dt)
        tzolkin_result == calculate_mayan_tzolkin(dt)
    IN  [raised |-> "error" \in (DOMAIN four_pillars) \cup (DOMAIN tzolkin_result),
         ascendant |-> IF settings.include_houses THEN houses_result.ascendant ELSE None,
         vedic_ascendant |->
             IF settings.include_houses
             THEN PyFloatMod(FSub(houses_result.ascendant, vedic_result.ayanamsa), Deg(360))
             ELSE None,
         calculation_results |->
            [birth_data |-> [date |-> <<dt.year, dt.month, dt.day>>,
                             time |-> <<dt.hour, dt.minute>>,
                             lat |-> lat, lon |-> lon,
                             timezone |-> settings.timezone],
             tropical_positions |-> tropical_positions,
             vedic_positions |-> vedic_result.positions,
             ayanamsa |-> vedic_result.ayanamsa,
             houses |-> IF settings.include_houses THEN houses_result.houses ELSE None,
             four_pillars |-> four_pillars,
             tzolkin |-> tzolkin_result,
             jd |-> jd,
             include_houses |-> settings.include_houses,
             house_system |-> settings.house_system]]

\* generate_report_text on the dict stored under 'calculation_results'
ReportOf(stored) ==
    generate_report_text(stored.birth_data, stored.vedic_positions,
                         stored.tropical_positions, stored.four_pillars, stored.tzolkin,
                         stored.houses, stored.ayanamsa, stored.include_houses,
                         stored.house_system)

\* the Vedic and the Western tab: what they show of the ascendant, and whether
\* a lookup of a sign name raised
Tabs(calculation) ==
    LET stored == calculation.calculation_results
        vedic_asc_sign == SignOf(zodiac_signs, calculation.vedic_ascendant)
        western_asc_sign == SignOf(zodiac_signs, calculation.ascendant)
        vedic_raised ==
            \/ stored.include_houses /\ "error" \in DOMAIN vedic_asc_sign
            \/ \E b \in DOMAIN stored.vedic_positions :
                  "error" \in DOMAIN SignOf(zodiac_signs, stored.vedic_positions[b])
            \/ "error" \in DOMAIN get_nakshatra_details(stored.vedic_positions["Moon"])
        western_raised ==
            \/ stored.include_houses /\ "error" \in DOMAIN western_asc_sign
            \/ \E b \in DOMAIN stored.tropical_positions :
                  "error" \in DOMAIN SignOf(zodiac_signs, stored.tropical_positions[b])
    IN  [vedic_ascendant |->
            IF stored.include_houses /\ "name" \in DOMAIN vedic_asc_sign
            THEN [sign |-> vedic_asc_sign.name,
                  longitude |-> Format2f(calculation.vedic_ascendant)]
            ELSE None,
         western_ascendant |->
            IF stored.include_houses /\ ~vedic_raised /\ "name" \in DOMAIN western_asc_sign
            THEN [sign |-> western_asc_sign.name, longitude |-> Format2f(calculation.ascendant)]
            ELSE None,
         raised |-> vedic_raised \/ western_raised]

\* the try block after the results are stored: the tabs, the two report
\* columns and the report area, given what the tabs showed and what
\* generate_report_text returned.  An exception ends the block where it is
\* raised and is caught by the except clause.  Returns the record of the
\* run and the value of 'generated_report' it leaves.
Display(tabs, report_text, calculate_button, generate_button, generated_report) ==
    LET raised == tabs.raised \/ "error" \in DOMAIN report_text
        generated == IF generate_button /\ ~raised THEN report_text ELSE generated_report
    IN  [generated_report |-> generated,
         run |-> [calculate_button |-> calculate_button,
                  generate_button |-> generate_button,
                  calculated |-> TRUE,
                  vedic_ascendant |-> tabs.vedic_ascendant,
                  western_ascendant |-> tabs.western_ascendant,
                  generate_rendered |-> ~tabs.raised,
                  download |-> IF raised THEN None ELSE report_text,
                  report_displayed |-> ~raised /\ generated # None,
                  error |-> raised]]

\* a run that did not enter the calculation block, or left it before the
\* results were stored
NothingShown(calculate_button, generate_button, raised) ==
    [calculate_button |-> calculate_button, generate_button |-> generate_button,
     calculated |-> FALSE, vedic_ascendant |-> None, western_ascendant |-> None,
     generate_rendered |-> FALSE, download |-> None, report_displayed |-> FALSE,
     error |-> raised]

\* the calculation block of a run: the session state and the record of the
\* run it leaves, located being the session state with this run's coordinates
Outcome(located, calculation, calculate_button, generate_button) ==
    IF calculation.raised
    THEN [session_state |-> located,
          run |-> NothingShown(calculate_button, generate_button, TRUE)]
    ELSE LET shown == Display(Tabs(calculation), ReportOf(calculation.calculation_results),
                              calculate_button, generate_button,
                              located.generated_report)
         IN  [session_state |->
                  [located EXCEPT !.calculation_results = calculation.calculation_results,
                                  !.generated_report = shown.generated_report],
              run |-> shown.run]

-----------------------------------------------------------------------------
(* State machine: each action is one call of an engine operation on the    *)
(* inputs drawn in Init; no method assigns to an attribute of self or to   *)
(* an argument, so every action leaves self and the inputs unchanged.      *)

HouseSystemNames == {house_systems[i] : i \in DOMAIN house_systems} \cup {"Unrecognised"}

QuadrantNames == {"Placidus", "Koch", "Campanus", "Regiomontanus"}

DefaultBirth == [year |-> 1994, month |-> 2, day |-> 7, hour |-> 20, minute |-> 0]

\* geographic longitudes in [-180, 180]: multiples of 45 degrees, and the
\* longitude -10.5 that brings the sidereal time at J2000 to 270 degrees
Longitudes == {Deg(45 * k) : k \in (-MaxLonStep) .. MaxLonStep} \cup {-21}

\* the day of the Julian Day that main computes for the default birth moment
DefaultBirthDays ==
    DaysSinceJ2000(calculate_julian_day(DefaultBirth.year, DefaultBirth.month,
                                        DefaultBirth.day, DefaultBirth.hour,
                                        DefaultBirth.minute))

\* the Julian Days given to calculate_lahiri_ayanamsa: the first
\* MaxDayOfCentury days of every century of the 4000 year range around
\* J2000, the last day of the century, and the day of the default birth
AyanamsaDays ==
    {36525 * c + r : c \in (-IntendedCenturies) .. (IntendedCenturies - 1),
                     r \in (0 .. MaxDayOfCentury) \cup {36525 - RoundingGapDays - MaxGapDays}}
    \cup {DefaultBirthDays}

\* the longitudes in [0, 360] a float holds, 360.0 being a value that
\* calculate_vedic_positions can return
MoonLongitudes == {h \in 0 .. Deg(360) : Representable(h)}

NoCalendarInputs ==
    /\ birth = DefaultBirth
    /\ later = AddDays(DefaultBirth, 260)

NoChartInputs ==
    /\ jdDays = 0
    /\ longitude = 0
    /\ atan2deg = Deg(11)

NoOtherInputs ==
    /\ laterDays = jdDays + 1
    /\ moon = 0

NoResults ==
    /\ tzolkin = [first |-> None, second |-> None]
    /\ pillars = None
    /\ chart = None
    /\ tropical = None
    /\ vedic = None
    /\ julianDay = [first |-> None, second |-> None]
    /\ lahiri = [first |-> None, second |-> None]
    /\ nakshatra = None
    /\ laterPillars = None

\* the application before the first run of main: nothing in the session
\* state, every widget at the value its declaration gives it
NoSession ==
    /\ FOLIUM_AVAILABLE = TRUE
    /\ session_state = EmptySessionState
    /\ widgets = DefaultWidgets
    /\ run = None

InitTzolkin ==
    /\ self = ProfessionalAstrologicalCalculator
    /\ birth \in DateTimes({0, 20})
    /\ later = AddDays(birth, 260)
    /\ NoChartInputs
    /\ NoOtherInputs
    /\ NoResults
    /\ NoSession

InitPillars ==
    /\ self = ProfessionalAstrologicalCalculator
    /\ birth \in DateTimes(0 .. 23)
    /\ later = AddDays(birth, 260)
    /\ NoChartInputs
    /\ NoOtherInputs
    /\ NoResults
    /\ NoSession

InitHouses ==
    /\ self = ProfessionalAstrologicalCalculator
    /\ NoCalendarInputs
    /\ jdDays \in (-MaxJdDay) .. MaxJdDay
    /\ longitude \in Longitudes
    /\ atan2deg \in Atan2Degrees(LocalSiderealTime(jdDays, longitude))
    /\ NoOtherInputs
    /\ NoResults
    /\ NoSession

InitPositions ==
    /\ self = ProfessionalAstrologicalCalculator
    /\ NoCalendarInputs
    /\ jdDays \in (-MaxEphemDay) .. MaxEphemDay
    /\ longitude = 0
    /\ atan2deg = Deg(11)
    /\ NoOtherInputs
    /\ NoResults
    /\ NoSession

InitJulianDay ==
    /\ self = ProfessionalAstrologicalCalculator
    /\ birth \in DateTimes({0, 12, 20})
    /\ later = AddDays(birth, 1)
    /\ NoChartInputs
    /\ NoOtherInputs
    /\ NoResults
    /\ NoSession

InitAyanamsa ==
    /\ self = ProfessionalAstrologicalCalculator
    /\ NoCalendarInputs
    /\ jdDays \in AyanamsaDays
    /\ laterDays \in {jdDays + g : g \in (1 .. MaxGapDays) \cup
                                          (RoundingGapDays .. RoundingGapDays + MaxGapDays)}
    /\ longitude = 0
    /\ atan2deg = Deg(11)
    /\ moon = 0
    /\ NoResults
    /\ NoSession

InitNakshatra ==
    /\ self = ProfessionalAstrologicalCalculator
    /\ NoCalendarInputs
    /\ NoChartInputs
    /\ laterDays = jdDays + 1
    /\ moon \in MoonLongitudes
    /\ NoResults
    /\ NoSession

\* two consecutive civil dates: any date of the modelled years and the next
InitDayPillar ==
    /\ self = ProfessionalAstrologicalCalculator
    /\ birth \in DateTimes({0, 20})
    /\ later = AddDays(birth, 1)
    /\ NoChartInputs
    /\ NoOtherInputs
    /\ NoResults
    /\ NoSession

\* one calculator serving a session: any birth moment of the session dates,
\* any chart and any Moon longitude of the session sets
Init ==
    /\ self = ProfessionalAstrologicalCalculator
    /\ birth \in {dt \in DateTimes({20}) : dt.year = DefaultBirth.year /\ dt.day = DefaultBirth.day
                                             /\ dt.month <= MaxSessionMonth}
    /\ later = AddDays(birth, 260)
    /\ jdDays \in 0 .. MaxSessionDay
    /\ laterDays = jdDays + 1
    /\ longitude = 0
    /\ atan2deg = Deg(11)
    /\ moon = Deg(40)
    /\ NoResults
    /\ NoSession

\* tzolkin = calc.calculate_mayan_tzolkin(birth_datetime)
MayanTzolkin(which) ==
    /\ tzolkin' = [tzolkin EXCEPT ![which] =
                      calculate_mayan_tzolkin(IF which = "first" THEN birth ELSE later)]
    /\ UNCHANGED <<self, inputs>>
    /\ UNCHANGED <<pillars, chart, tropical, vedic, julianDay, lahiri, nakshatra>>
    /\ UNCHANGED <<laterPillars, app>>

\* four_pillars = calc.calculate_four_pillars(birth_datetime)
FourPillars ==
    /\ pillars' = calculate_four_pillars(birth)
    /\ UNCHANGED <<self, inputs>>
    /\ UNCHANGED <<tzolkin, chart, tropical, vedic, julianDay, lahiri, nakshatra>>
    /\ UNCHANGED <<laterPillars, app>>

\* calc.calculate_four_pillars(birth_datetime + timedelta(days=1))
FourPillarsLater ==
    /\ laterPillars' = calculate_four_pillars(later)
    /\ UNCHANGED <<self, inputs>>
    /\ UNCHANGED results
    /\ UNCHANGED app

\* houses, ascendant = calc.calculate_houses(jd, lat, lon, house_system)
Houses(house_system) ==
    /\ chart' = calculate_houses(jdDays, longitude, atan2deg, house_system)
    /\ UNCHANGED <<self, inputs>>
    /\ UNCHANGED <<tzolkin, pillars, tropical, vedic, julianDay, lahiri, nakshatra>>
    /\ UNCHANGED <<laterPillars, app>>

\* tropical_positions = calc.calculate_planetary_positions(jd)
PlanetaryPositions ==
    /\ tropical' = calculate_planetary_positions(jdDays)
    /\ UNCHANGED <<self, inputs>>
    /\ UNCHANGED <<tzolkin, pillars, chart, vedic, julianDay, lahiri, nakshatra>>
    /\ UNCHANGED <<laterPillars, app>>

\* the conversion written into the dict that was passed in
VedicPositionsInPlace ==
    /\ tropical # None
    /\ vedic' = calculate_vedic_positions(tropical, jdDays)
    /\ tropical' = vedic'.positions
    /\ UNCHANGED <<self, inputs>>
    /\ UNCHANGED <<tzolkin, pillars, chart, julianDay, lahiri, nakshatra>>
    /\ UNCHANGED <<laterPillars, app>>

\* vedic_positions, ayanamsa = calc.calculate_vedic_positions(tropical_positions, jd)
VedicPositions ==
    /\ tropical # None
    /\ vedic' = calculate_vedic_positions(tropical, jdDays)
    /\ UNCHANGED <<self, inputs>>
    /\ UNCHANGED <<tzolkin, pillars, chart, tropical, julianDay, lahiri, nakshatra>>
    /\ UNCHANGED <<laterPillars, app>>

\* jd = calc.calculate_julian_day(year, month, day, hour, minute)
JulianDay(which) ==
    /\ julianDay' = [julianDay EXCEPT ![which] =
                 LET dt == IF which = "first" THEN birth ELSE later
                 IN  calculate_julian_day(dt.year, dt.month, dt.day, dt.hour, dt.minute)]
    /\ UNCHANGED <<self, inputs>>
    /\ UNCHANGED <<tzolkin, pillars, chart, tropical, vedic, lahiri, nakshatra>>
    /\ UNCHANGED <<laterPillars, app>>

\* ayanamsa = calc.calculate_lahiri_ayanamsa(jd)
LahiriAyanamsa(which) ==
    /\ lahiri' = [lahiri EXCEPT ![which] =
                       [ayanamsa |-> calculate_lahiri_ayanamsa(
                                        IF which = "first" THEN jdDays ELSE laterDays)]]
    /\ UNCHANGED <<self, inputs>>
    /\ UNCHANGED <<tzolkin, pillars, chart, tropical, vedic, julianDay, nakshatra>>
    /\ UNCHANGED <<laterPillars, app>>

\* nakshatra_details = calc.get_nakshatra_details(moon_longitude)
NakshatraDetails ==
    /\ nakshatra' = get_nakshatra_details(moon)
    /\ UNCHANGED <<self, inputs>>
    /\ UNCHANGED <<tzolkin, pillars, chart, tropical, vedic, julianDay, lahiri>>
    /\ UNCHANGED <<laterPillars, app>>

\* the values of math.degrees(math.atan2(y, x)) of the session's charts: an
\* ascendant inside a sign, one in the opposite half of the wheel, and the
\* negative value nearest zero
SessionAtan2(lst) == {r \in Atan2Degrees(lst) : r \in {Deg(40), -Deg(140), -1}}

\* the values typed into the number inputs and clicked on the map
EnteredLatitudes == {Coord(45 * k) : k \in 0 .. MaxEntered}

EnteredLongitudes == {Coord(90 * k) : k \in 0 .. MaxEntered}

\* the run that opens the page: no button pressed, the default coordinates
\* put into the session state
FirstRun == NothingShown(FALSE, FALSE, FALSE)

\* the page opened and the birth details and calculation settings chosen:
\* the default birth moment or the same day of a later month (the sidereal
\* time of the default has a positive cosine, that of the month after a
\* negative one), a timezone and a house system of the selectboxes
InitMain ==
    /\ self = ProfessionalAstrologicalCalculator
    /\ birth \in {dt \in DateTimes({DefaultBirth.hour}) :
                     /\ dt.year = DefaultBirth.year /\ dt.day = DefaultBirth.day
                     /\ DefaultBirth.month <= dt.month /\ dt.month <= MaxSessionMonth}
    /\ later = AddDays(birth, 260)
    /\ NoChartInputs
    /\ NoOtherInputs
    /\ NoResults
    /\ FOLIUM_AVAILABLE \in BOOLEAN
    /\ session_state = [EmptySessionState EXCEPT !.lat_value = DefaultLat,
                                                 !.lon_value = DefaultLon]
    /\ widgets \in {[DefaultWidgets EXCEPT !.timezone = tz, !.house_system = hs,
                                           !.include_houses = ih] :
                        tz \in {Timezones[i] : i \in 1 .. MaxTimezone},
                        hs \in {house_systems[i] : i \in DOMAIN house_systems},
                        ih \in BOOLEAN}
    /\ run = FirstRun

\* one run of the script main, from top to bottom.  trigger is the label or
\* key of the widget whose change or click caused the rerun, method the
\* value of the radio and returned the (lat, lon) the location widgets of
\* this run return.
MainRun(trigger, method, returned) ==
    LET calculate_button == trigger = "Calculate Complete Chart"
        generate_button == trigger = "Generate Complete Report"
        stays == method = "Interactive Map" /\
                 ~(FOLIUM_AVAILABLE /\ Truthy(returned[1]) /\ Truthy(returned[2]))
        lat_value == IF stays THEN session_state.lat_value ELSE returned[1]
        lon_value == IF stays THEN session_state.lon_value ELSE returned[2]
        located == [session_state EXCEPT !.lat_value = lat_value, !.lon_value = lon_value]
        d == DaysSinceJ2000(LET utc == AsUtc(birth, widgets.timezone)
                            IN  calculate_julian_day(utc.year, utc.month, utc.day,
                                                     utc.hour, utc.minute))
        lst == LocalSiderealTime(d, HalfDegrees(lon_value))
    IN  /\ widgets' = [widgets EXCEPT !.location_method = method]
        /\ IF calculate_button /\ Truthy(lat_value) /\ Truthy(lon_value)
           THEN \E atan2 \in SessionAtan2(lst) :
                   LET outcome == Outcome(located,
                                          Calculation(birth, lat_value, lon_value,
                                                      widgets, atan2),
                                          calculate_button, generate_button)
                   IN  /\ session_state' = outcome.session_state
                       /\ run' = outcome.run
           ELSE /\ session_state' = located
                /\ run' = NothingShown(calculate_button, generate_button, FALSE)
        /\ UNCHANGED <<self, inputs, results, laterPillars, FOLIUM_AVAILABLE>>

\* what the user can do to the page the last run rendered: change one
\* location widget or press one button
Interactions ==
    {[widget |-> "Location Input Method:", option |-> m, lat |-> 0, lon |-> 0] :
        m \in LocationMethods \ {widgets.location_method}}
    \cup {[widget |-> "Latitude", option |-> "", lat |-> v, lon |-> 0] :
            v \in IF widgets.location_method = "Manual Coordinates"
                  THEN EnteredLatitudes ELSE {}}
    \cup {[widget |-> "Longitude", option |-> "", lat |-> 0, lon |-> v] :
            v \in IF widgets.location_method = "Manual Coordinates"
                  THEN EnteredLongitudes ELSE {}}
    \cup {[widget |-> "Select Major City", option |-> major_cities[i][1], lat |-> 0, lon |-> 0] :
            i \in IF widgets.location_method = "Major Cities" THEN 1 .. MaxCity ELSE {}}
    \cup {[widget |-> "location_map", option |-> "", lat |-> v, lon |-> w] :
            v \in IF widgets.location_method = "Interactive Map" /\ FOLIUM_AVAILABLE
                  THEN EnteredLatitudes ELSE {},
            w \in EnteredLongitudes}
    \cup {[widget |-> "Calculate Complete Chart", option |-> "", lat |-> 0, lon |-> 0]}
    \cup {[widget |-> b, option |-> "", lat |-> 0, lon |-> 0] :
            b \in IF run.generate_rendered THEN {"Generate Complete Report"} ELSE {}}
    \cup {[widget |-> b, option |-> "", lat |-> 0, lon |-> 0] :
            b \in IF run.download # None THEN {"Download Report (TXT)"} ELSE {}}

\* the coordinates of a city of the selectbox
CityCoordinates(city) ==
    LET i == CHOOSE k \in DOMAIN major_cities : major_cities[k][1] = city
    IN  <<major_cities[i][2], major_cities[i][3]>>

\* the (lat, lon) that the location widgets return in the run an interaction
\* causes: a number input the user changed returns the new value, the map
\* the point clicked, the city selectbox the city picked, or its first
\* option when the radio has just brought it up; an untouched widget
\* returns the coordinates the session holds
Returned(interaction) ==
    CASE interaction.widget = "Latitude" -> <<interaction.lat, session_state.lon_value>>
      [] interaction.widget = "Longitude" -> <<session_state.lat_value, interaction.lon>>
      [] interaction.widget = "location_map" -> <<interaction.lat, interaction.lon>>
      [] interaction.widget = "Select Major City" -> CityCoordinates(interaction.option)
      [] interaction.widget = "Location Input Method:" /\ interaction.option = "Major Cities" ->
            <<major_cities[1][2], major_cities[1][3]>>
      [] OTHER -> <<session_state.lat_value, session_state.lon_value>>

\* the user interacts with the page and Streamlit reruns the script
Main(interaction) ==
    MainRun(interaction.widget,
            IF interaction.widget = "Location Input Method:" THEN interaction.option
            ELSE widgets.location_method,
            Returned(interaction))

NextMain == \E interaction \in Interactions : Main(interaction)

NextTzolkin == \E which \in {"first", "second"} : MayanTzolkin(which)

NextPillars == FourPillars

NextDayPillar == FourPillars \/ FourPillarsLater

NextHouses == \E house_system \in HouseSystemNames : Houses(house_system)

NextPositions == PlanetaryPositions \/ VedicPositions

NextJulianDay == \E which \in {"first", "second"} : JulianDay(which)

NextAyanamsa == \E which \in {"first", "second"} : LahiriAyanamsa(which)

NextNakshatra == NakshatraDetails

\* the eight operations, called in any order and any number of times
Next ==
    \/ \E which \in {"first", "second"} : JulianDay(which)
    \/ \E which \in {"first", "second"} : LahiriAyanamsa(which)
    \/ PlanetaryPositions
    \/ \E house_system \in HouseSystemNames : Houses(house_system)
    \/ VedicPositions
    \/ NakshatraDetails
    \/ FourPillars
    \/ \E which \in {"first", "second"} : MayanTzolkin(which)

SpecTzolkin == InitTzolkin /\ [][NextTzolkin]_vars

SpecPillars == InitPillars /\ [][NextPillars]_vars

SpecDayPillar == InitDayPillar /\ [][NextDayPillar]_vars

SpecMain == InitMain /\ [][NextMain]_vars

SpecHouses == InitHouses /\ [][NextHouses]_vars

SpecPositions == InitPositions /\ [][NextPositions]_vars

SpecJulianDay == InitJulianDay /\ [][NextJulianDay]_vars

SpecAyanamsa == InitAyanamsa /\ [][NextAyanamsa]_vars

SpecNakshatra == InitNakshatra /\ [][NextNakshatra]_vars

Spec == Init /\ [][Next]_vars

-----------------------------------------------------------------------------
(* Properties *)

Readings == {tzolkin[w] : w \in {"first", "second"}} \ {None}

\* C1: every reading returned by calculate_mayan_tzolkin, also for dates
\* before the 1900-01-01 epoch, has its kin number in 1..260, its galactic
\* tone in 1..13 and read the day-sign table at an index in 0..19.
C1_TzolkinRanges ==
    \A r \in Readings :
        /\ "error" \notin DOMAIN r
        /\ r.kin \in 1 .. 260
        /\ r.galactic_tone \in 1 .. 13
        /\ r.day_sign_index \in 0 .. 19

C1_Witness ==
    /\ tzolkin.first # None
    /\ days_since_epoch(birth) + 584283 < 0

\* C2: the readings of two civil datetimes exactly 260 days apart are
\* identical (kin number, day sign name, glyph and meaning, galactic tone).
C2_Period260 ==
    (tzolkin.first # None /\ tzolkin.second # None)
        => tzolkin.first = tzolkin.second

C2_Witness ==
    /\ tzolkin.first # None /\ tzolkin.second # None
    /\ days_since_epoch(birth) < 0 /\ days_since_epoch(later) >= 0

\* position of a day-sign name in the 20-entry table, 0-based
DaySignIndexOf(name) ==
    CHOOSE i \in 0 .. 19 : mayan_day_signs[i + 1][1] = name

\* C3 as stated: with kin the returned kin number (1..260), kin mod 20 is
\* the index of the returned day sign and (kin mod 13) + 1 the returned tone.
C3_Original ==
    \A r \in Readings :
        /\ r.kin % 20 = DaySignIndexOf(r.day_sign)
        /\ (r.kin % 13) + 1 = r.galactic_tone

\* C3 amended: the returned kin number is 1-based, so it is kin - 1 whose
\* remainder mod 20 is the index of the returned day sign and whose
\* remainder mod 13, plus 1, is the returned galactic tone.
C3_Amended ==
    \A r \in Readings :
        /\ r.kin \in 1 .. 260
        /\ (r.kin - 1) % 20 = DaySignIndexOf(r.day_sign)
        /\ ((r.kin - 1) % 13) + 1 = r.galactic_tone

C3_Witness ==
    /\ tzolkin.first # None
    /\ birth.year = 1994 /\ birth.month = 2 /\ birth.day = 7

\* C4: each of the four stem indices of calculate_four_pillars is in 0..9
\* and each branch index in 0..11, so that every table lookup succeeds; the
\* day stem and day branch are the remainders mod 10 and mod 12 of one
\* day_offset in 0..59.
C4_PillarIndices ==
    pillars # None =>
        /\ "error" \notin DOMAIN pillars
        /\ \A k \in {"year_stem", "month_stem", "day_stem", "hour_stem"} :
              pillars[k] \in 0 .. 9
        /\ \A k \in {"year_branch", "month_branch", "day_branch", "hour_branch"} :
              pillars[k] \in 0 .. 11
        /\ pillars.day_offset \in 0 .. 59
        /\ pillars.day_stem = pillars.day_offset % 10
        /\ pillars.day_branch = pillars.day_offset % 12
        /\ pillars.day = <<heavenly_stems[pillars.day_stem + 1],
                           earthly_branches[pillars.day_branch + 1]>>

C4_Witness ==
    /\ pillars # None
    /\ birth.hour = 23
    /\ birth.month = 2 /\ birth.day = 28

\* normalize(a + b) of the claims: the floating-point sum brought into
\* [0, 360) by the mathematical remainder
NormalizedSum(a, b) == FAdd(a, b) % Deg(360)

\* C5 as stated: for a quadrant-family or unrecognised name the returned
\* cusps have house 1 = Ascendant, house 4 = normalize(MC + 180),
\* house 7 = normalize(Ascendant + 180) and house 10 = MC = local sidereal
\* time.
C5_QuadrantAngles ==
    (chart # None /\ chart.system \notin {"Whole Sign", "Equal"}) =>
        LET mc == LocalSiderealTime(jdDays, longitude) % Deg(360)
        IN  /\ {1, 4, 7, 10} \subseteq DOMAIN chart.houses
            /\ chart.houses[1] = chart.ascendant
            /\ chart.houses[4] = NormalizedSum(mc, Deg(180))
            /\ chart.houses[7] = NormalizedSum(chart.ascendant, Deg(180))
            /\ chart.houses[10] = mc

\* C6 as stated: with Whole Sign, house 1 is the multiple b of 30 degrees
\* with b <= Ascendant < b + 30, and house n is normalize(b + 30 * (n - 1)).
C6_WholeSign ==
    (chart # None /\ chart.system = "Whole Sign") =>
        \E k \in 0 .. 11 :
            LET b == Deg(30 * k)
            IN  /\ b <= chart.ascendant /\ chart.ascendant < b + Deg(30)
                /\ chart.houses[1] = b
                /\ \A n \in 2 .. 12 :
                      chart.houses[n] = (b + Deg(30 * (n - 1))) % Deg(360)

\* C7 as stated: with Equal, house 1 is the returned Ascendant exactly and
\* house n is normalize(Ascendant + 30 * (n - 1)) for n in 1..12.
C7_Equal ==
    (chart # None /\ chart.system = "Equal") =>
        /\ chart.houses[1] = chart.ascendant
        /\ \A n \in 1 .. 12 :
              chart.houses[n] = NormalizedSum(chart.ascendant, Deg(30 * (n - 1)))

\* C8 as stated: for every house-system name the result has exactly the
\* twelve cusps 1..12, and every cusp and the Ascendant are in [0, 360).
C8_TwelveCuspsInRange ==
    chart # None =>
        /\ DOMAIN chart.houses = 1 .. 12
        /\ \A n \in DOMAIN chart.houses :
              0 <= chart.houses[n] /\ chart.houses[n] < Deg(360)
        /\ 0 <= chart.ascendant /\ chart.ascendant < Deg(360)

\* C9: for the same Julian Day, latitude and longitude, a call with one of
\* the names Placidus, Koch, Campanus, Regiomontanus returns the cusps and
\* the Ascendant that a call with another of these names returned.
C9_QuadrantNamesAgree ==
    [][(/\ chart # None /\ chart.system \in QuadrantNames
        /\ chart' # None /\ chart'.system \in QuadrantNames)
       => (/\ chart'.houses = chart.houses
           /\ chart'.ascendant = chart.ascendant)]_vars

C9_Witness ==
    /\ chart # None
    /\ chart.system = "Koch"
    /\ chart.houses = calculate_houses(jdDays, longitude, atan2deg, "Placidus").houses

\* C10 as stated: each of the seven tropical longitudes and each of the
\* seven sidereal longitudes is >= 0 and < 360, so that floor(longitude / 30)
\* is an index 0..11 of the zodiac table.
C10_LongitudesInRange ==
    /\ tropical # None =>
          \A b \in Bodies :
              /\ 0 <= tropical[b] /\ tropical[b] < Deg(360)
              /\ tropical[b] \div Deg(30) \in 0 .. 11
    /\ vedic # None =>
          \A b \in Bodies :
              /\ 0 <= vedic.positions[b] /\ vedic.positions[b] < Deg(360)
              /\ vedic.positions[b] \div Deg(30) \in 0 .. 11

\* normalize(a - b) of the claims: the floating-point difference brought
\* into [0, 360) by the mathematical remainder
NormalizedDiff(a, b) == FSub(a, b) % Deg(360)

\* C11 as stated: for every body the sidereal longitude returned by
\* calculate_vedic_positions is normalize(tropical - ayanamsa), and the
\* round trip normalize(tropical - sidereal) gives back the ayanamsa that
\* was returned alongside.
C11_SiderealRoundTrip ==
    vedic # None =>
        \A b \in Bodies :
            /\ vedic.positions[b] = NormalizedDiff(tropical[b], vedic.ayanamsa)
            /\ NormalizedDiff(tropical[b], vedic.positions[b]) = vedic.ayanamsa

StandardJulianDay(dt) ==
    LET mins == 720 + 60 * dt.hour + dt.minute
    IN  [day |-> ToOrdinal(dt.year, dt.month, dt.day) + 1721424 + mins \div 1440,
         min |-> mins % 1440]

\* C14: calculate_julian_day agrees with the standard Gregorian Julian Day
\* on every date and time (January and February included), the value for a
\* civil date is exactly 1 greater than for the preceding civil date at the
\* same time of day (across month ends, year ends and leap days),
\* 2000-01-01 12:00 gives 2451545.0 and 1994-02-07 20:00 gives 2449391 + 1/3.
C14_JulianDay ==
    /\ julianDay.first # None =>
          /\ julianDay.first = StandardJulianDay(birth)
          /\ (birth = [year |-> 2000, month |-> 1, day |-> 1, hour |-> 12, minute |-> 0])
                => julianDay.first = [day |-> 2451545, min |-> 0]
          /\ (birth = DefaultBirth)
                => julianDay.first = [day |-> 2449391, min |-> 1440 \div 3]
    /\ (julianDay.first # None /\ julianDay.second # None) =>
          /\ julianDay.second.day = julianDay.first.day + 1
          /\ julianDay.second.min = julianDay.first.min

C14_Witness ==
    /\ julianDay.first # None /\ julianDay.second # None
    /\ birth.year = 2000 /\ birth.month = 2 /\ birth.day = 29 /\ birth.hour = 0
    /\ later.month = 3 /\ later.day = 1

\* C15 as stated: for every Moon longitude L in [0, 360) the index is
\* floor(L / span) in 0..26 and the pada is in 1..4, with span = 360/27 = 40/3
\* degrees, and 4 * index + (pada - 1) = floor(L / (span / 4)), the quarter
\* of the 108 that holds L; in particular a longitude that is exactly
\* k * span has index k and pada 1.  L is moon / 2 degrees, so L / span is
\* 3 * moon / 80 and L / (span / 4) is 3 * moon / 20.
C15_NakshatraQuarters ==
    (nakshatra # None /\ moon < Deg(360)) =>
        /\ "error" \notin DOMAIN nakshatra
        /\ nakshatra.nakshatra_index = (3 * moon) \div 80
        /\ nakshatra.nakshatra_index \in 0 .. 26
        /\ nakshatra.pada \in 1 .. 4
        /\ 4 * nakshatra.nakshatra_index + (nakshatra.pada - 1) = (3 * moon) \div 20
        /\ \A k \in 0 .. 26 :
              (3 * moon = 80 * k) =>
                  (nakshatra.nakshatra_index = k /\ nakshatra.pada = 1)

C17_DayPillarOfCivilDate ==
    pillars # None =>
        LET dayOffset ==
                IntOfJd(calculate_julian_day(birth.year, birth.month, birth.day, 0, 0)) % 60
        IN  /\ pillars.day_offset = dayOffset
            /\ pillars.day_stem = dayOffset % 10
            /\ pillars.day_branch = dayOffset % 12

\* the year that calculate_four_pillars works with, as C18 states it
WorkingYear(dt) ==
    IF dt.month = 1 \/ (dt.month = 2 /\ dt.day < 35) THEN dt.year - 1 ELSE dt.year

\* C18: the year stem is (workingYear - 4) mod 10 and the year branch
\* (workingYear - 4) mod 12, the working year being the civil year minus one
\* exactly when month = 1 or (month = 2 and day < 35); so every date of
\* January and February has the year pillar of the preceding civil year and
\* every date from March to December that of its own civil year.
C18_WorkingYear ==
    pillars # None =>
        /\ pillars.year_stem = (WorkingYear(birth) - 4) % 10
        /\ pillars.year_branch = (WorkingYear(birth) - 4) % 12
        /\ pillars.year = <<heavenly_stems[pillars.year_stem + 1],
                            earthly_branches[pillars.year_branch + 1]>>
        /\ birth.month <= 2 =>
              /\ pillars.year_stem = (birth.year - 1 - 4) % 10
              /\ pillars.year_branch = (birth.year - 1 - 4) % 12
        /\ birth.month >= 3 =>
              /\ pillars.year_stem = (birth.year - 4) % 10
              /\ pillars.year_branch = (birth.year - 4) % 12

C18_Witness ==
    /\ pillars # None
    /\ birth.year = 2000 /\ birth.month = 2 /\ birth.day = 29

\* C19 as stated: the cusps of a quadrant-family system are, cusp for cusp,
\* the cusps calculate_houses returns for Equal with the same Julian Day,
\* latitude and longitude: house n = normalize(Ascendant + 30 * (n - 1)) for
\* n in 1..12 and house n + 6 = normalize(house n + 180) for n in 1..6.
C19_QuadrantIsEqual ==
    (chart # None /\ chart.system \in QuadrantNames) =>
        /\ chart.houses = calculate_houses(jdDays, longitude, atan2deg, "Equal").houses
        /\ \A n \in 1 .. 12 :
              chart.houses[n] = NormalizedSum(chart.ascendant, Deg(30 * (n - 1)))
        /\ \A n \in 1 .. 6 :
              chart.houses[n + 6] = NormalizedSum(chart.houses[n], Deg(180))

\* the stem and branch index of each of the four pillars
PillarIndices ==
    {<<pillars.year_stem, pillars.year_branch>>,
     <<pillars.month_stem, pillars.month_branch>>,
     <<pillars.day_stem, pillars.day_branch>>,
     <<pillars.hour_stem, pillars.hour_branch>>}

\* C20 as stated: each of the four pillars is a position of the 60-unit
\* cycle: stem and branch index have the same parity, that is, some p in
\* 0..59 has stem = p mod 10 and branch = p mod 12.
C20_SexagenaryPositions ==
    pillars # None =>
        \A sb \in PillarIndices :
            /\ sb[1] % 2 = sb[2] % 2
            /\ \E p \in 0 .. 59 : sb[1] = p % 10 /\ sb[2] = p % 12

\* C21 as stated: over consecutive civil dates the day pillar advances by
\* exactly one position of the 60-cycle per day, dayOffset(date + 1 day) =
\* (dayOffset(date) + 1) mod 60, across 31 December -> 1 January and the
\* last day of February -> 1 March included.
C21_DayPillarAdvances ==
    (pillars # None /\ laterPillars # None) =>
        /\ laterPillars.day_offset = (pillars.day_offset + 1) % 60
        /\ laterPillars.day_stem = ((pillars.day_offset + 1) % 60) % 10
        /\ laterPillars.day_branch = ((pillars.day_offset + 1) % 60) % 12

\* C22 as stated: every run of main in which the Calculate button is pressed
\* and the stored coordinates are in range (latitude in [-90, 90], longitude
\* in [-180, 180], latitude 0 or longitude 0 entered through Manual
\* Coordinates included) performs the calculation and stores
\* calculation_results, for the stored coordinates, in the session state.
C22_CalculateStores ==
    (/\ run.calculate_button
     /\ -Coord(90) <= session_state.lat_value /\ session_state.lat_value <= Coord(90)
     /\ -Coord(180) <= session_state.lon_value /\ session_state.lon_value <= Coord(180)) =>
        /\ run.calculated
        /\ session_state.calculation_results # None
        /\ session_state.calculation_results.birth_data.lat = session_state.lat_value
        /\ session_state.calculation_results.birth_data.lon = session_state.lon_value

\* C23 as stated: under the rerun model (one run per interaction, a button
\* true only in the run its own click triggered), pressing "Generate
\* Complete Report" after a run that stored calculation_results leads to a
\* run that stores generated_report in the session state and displays the
\* report.
C23_GenerateStoresReport ==
    [][(/\ run.calculated
        /\ session_state.calculation_results # None
        /\ run'.generate_button) =>
           /\ session_state'.generated_report # None
           /\ run'.report_displayed]_vars

\* C24 as stated: for one calculation with houses included, the Vedic
\* ascendant written by generate_report_text (sign and longitude of
\* normalize(houses['1'] - ayanamsa)) is the Vedic ascendant shown in the
\* Vedic tab (those of normalize(ascendant - ayanamsa)), for every house
\* system, Whole Sign included.
C24_SameVedicAscendant ==
    (/\ run.calculated
     /\ session_state.calculation_results.include_houses
     /\ run.vedic_ascendant # None
     /\ run.download # None) =>
        /\ run.download.ascendant.sign = run.vedic_ascendant.sign
        /\ run.download.ascendant.longitude = run.vedic_ascendant.longitude

====
